---- MODULE Spec2Model ----
(***************************************************************************)
(* Model of the message-limiter extension (src/index.js): a controller     *)
(* that caps the number of rendered chat messages (#chat .mes) while the   *)
(* host owns the message log (chat).  The host (script.js) is external:    *)
(* its log mutations, its render primitive and its reload are modelled as  *)
(* the specification describes them.                                       *)
(***************************************************************************)
EXTENDS Integers, Sequences, FiniteSets, TLC

VARIABLES
    chat,           \* the host's message log: sequence of message records
    mes,            \* rendered elements '#chat .mes' in view order
    isEnabled,      \* extensionSettings().isEnabled
    messageLimit,   \* extensionSettings().messageLimit
    limiterActive,  \* attribute data-limiter-active on #chat
    uiChecked,      \* checkbox #chat-limiter-enabled
    uiCount,        \* input #chat-limiter-count
    timers,         \* setTimeout(…, 0) callbacks not yet run, FIFO
    event,          \* host event being dispatched to this extension
    reloadReq,      \* reloadCurrentChat() has been called and not yet completed
    nextRec,        \* next fresh record; 1 + messages loaded or appended so far
    threw,          \* the last step ended in an uncaught exception
    viewChanged,    \* the last step changed the rendered elements (history)
    sinceResync,    \* a full resync ran and since then only host appends and
                    \* deletes happened, each followed by its callback (history)
    delBurst,       \* host deletions delivered in a row from an enabled
                    \* consistent window before any of their callbacks ran,
                    \* kept while only those callbacks run; else 0 (history)
    reloads,        \* reloadCurrentChat() completions since the last step that
                    \* the user or the host log initiated (history)
    lastOp          \* name of the last step taken (history)

vars == <<chat, mes, isEnabled, messageLimit, limiterActive, uiChecked,
          uiCount, timers, event, reloadReq, nextRec, threw, viewChanged,
          sinceResync, delBurst, reloads, lastOp>>

\* ---------------------------------------------------------------- bounds
MaxLog == 3         \* longest log the host builds
MaxRec == 3         \* messages the host appends to one chat
MaxLimit == 2       \* largest limit typed into the count input
MaxTimers == 2      \* deferred callbacks outstanding at once

\* ------------------------------------------------------- program constants
DefaultIsEnabled == FALSE
DefaultMessageLimit == 20

defaultSettings == [isEnabled |-> DefaultIsEnabled, messageLimit |-> DefaultMessageLimit]

NoSettings == <<>>      \* extension_settings[extensionName] is undefined
NoInsert == -1          \* addOneMessage called without insertBefore
NoEvent == "none"
Undefined == 0          \* chat[i] for an index outside the log

\* Values typed into the count input, the non-positive ones included.
LimitInputs == (-1)..MaxLimit

\* ------------------------------------------------------------ host model
\* An element rendered by the host's addOneMessage: its mesid tag, the record
\* it shows, and whether it holds an .edit_textarea.
Element(id, m) == [mesid |-> id, msg |-> m, edit |-> FALSE]

\* addOneMessage(message, {forceId, insertBefore}): appends the element, or
\* inserts it before the element tagged insertBefore.
FirstTagged(v, id) ==
    IF \E k \in 1..Len(v) : v[k].mesid = id
    THEN CHOOSE k \in 1..Len(v) : v[k].mesid = id /\ \A j \in 1..(k-1) : v[j].mesid # id
    ELSE 0

addOneMessage(v, m, forceId, insertBefore) ==
    IF insertBefore = NoInsert
    THEN Append(v, Element(forceId, m))
    ELSE LET k == FirstTagged(v, insertBefore)
         IN  IF k = 0 THEN v
             ELSE SubSeq(v, 1, k-1) \o <<Element(forceId, m)>> \o SubSeq(v, k, Len(v))

\* clearChat(): removes every rendered element.
clearChat(v) == <<>>

\* The host's own full rendering of a log: element i tagged with index i.
RECURSIVE HostRender(_, _)
HostRender(c, n) ==
    IF n = 0 THEN <<>>
    ELSE addOneMessage(HostRender(c, n-1), c[n], n-1, NoInsert)

\* Removal of every element satisfying a tag test.
RECURSIVE RemoveTagged(_, _)
RemoveTagged(v, id) ==
    IF v = <<>> THEN <<>>
    ELSE IF Head(v).mesid = id THEN RemoveTagged(Tail(v), id)
    ELSE <<Head(v)>> \o RemoveTagged(Tail(v), id)

\* chat.splice(i, 1), i 0-based
Splice(c, i) == SubSeq(c, 1, i) \o SubSeq(c, i+2, Len(c))

\* ------------------------------------------------------- pure JS helpers
\* chat[i], i 0-based
At(c, i) == IF i \in 0..(Len(c) - 1) THEN c[i + 1] ELSE Undefined

\* Variant of SliceLast: one record too many.
SliceLastOffByOne(c, limit) ==
    IF limit + 1 >= Len(c) THEN c ELSE SubSeq(c, Len(c) - limit, Len(c))

\* chat.slice(-limit) for limit > 0: the last min(limit, length) records.
SliceLast(c, limit) ==
    IF limit >= Len(c) THEN c ELSE SubSeq(c, Len(c) - limit + 1, Len(c))

\* chat.indexOf(message): 0-based index of the first occurrence, -1 if none.
indexOf(c, m) ==
    IF \E k \in 1..Len(c) : c[k] = m
    THEN (CHOOSE k \in 1..Len(c) : c[k] = m /\ \A j \in 1..(k-1) : c[j] # m) - 1
    ELSE -1

\* $('#chat .edit_textarea').length > 0
EditInProgress(v) == \E k \in 1..Len(v) : v[k].edit

\* messageElements.first().remove(): nothing to remove in an empty selection.
RemoveFirst(v) == IF v = <<>> THEN v ELSE Tail(v)

\* ------------------------------------------------------ the extension
\* loadSettings(): defaults overlaid by the persisted settings.
loadSettings(persisted) ==
    IF persisted = NoSettings THEN defaultSettings
    ELSE [isEnabled |-> persisted[1].isEnabled, messageLimit |-> persisted[1].messageLimit]

\* messagesToDisplay.forEach(message => addOneMessage(message,
\*     {forceId: chat.indexOf(message)})), applied to view v.
RECURSIVE RenderEach(_, _, _)
RenderEach(c, messagesToDisplay, v) ==
    IF messagesToDisplay = <<>> THEN v
    ELSE LET message == Head(messagesToDisplay)
             originalIndex == indexOf(c, message)
         IN  RenderEach(c, Tail(messagesToDisplay),
                        addOneMessage(v, message, originalIndex, NoInsert))

\* Variant of applyMessageLimit: truncates the log itself, not only the view.
applyMessageLimitOnLog(c, v, active, enabled, limit) ==
    IF ~enabled
    THEN [chat |-> c, mes |-> v, limiterActive |-> active, reload |-> active]
    ELSE IF EditInProgress(v) \/ limit <= 0
    THEN [chat |-> c, mes |-> v, limiterActive |-> TRUE, reload |-> FALSE]
    ELSE [chat |-> SliceLast(c, limit),
          mes |-> RenderEach(c, SliceLast(c, limit), clearChat(v)),
          limiterActive |-> TRUE, reload |-> FALSE]

\* Variant of applyMessageLimit: clears the view before testing the limit.
applyMessageLimitClearsFirst(c, v, active, enabled, limit) ==
    IF ~enabled
    THEN [chat |-> c, mes |-> v, limiterActive |-> active, reload |-> active]
    ELSE IF EditInProgress(v)
    THEN [chat |-> c, mes |-> v, limiterActive |-> TRUE, reload |-> FALSE]
    ELSE IF limit <= 0
    THEN [chat |-> c, mes |-> clearChat(v), limiterActive |-> TRUE, reload |-> FALSE]
    ELSE [chat |-> c,
          mes |-> RenderEach(c, SliceLast(c, limit), clearChat(v)),
          limiterActive |-> TRUE, reload |-> FALSE]

\* applyMessageLimit(): result on the log, the view, the active marker, and
\* whether reloadCurrentChat() was called.
applyMessageLimit(c, v, active, enabled, limit) ==
    IF ~enabled
    THEN [chat |-> c, mes |-> v, limiterActive |-> active, reload |-> active]
    ELSE IF EditInProgress(v)
    THEN [chat |-> c, mes |-> v, limiterActive |-> TRUE, reload |-> FALSE]
    ELSE IF limit <= 0
    THEN [chat |-> c, mes |-> v, limiterActive |-> TRUE, reload |-> FALSE]
    ELSE [chat |-> c,
          mes |-> RenderEach(c, SliceLast(c, limit), clearChat(v)),
          limiterActive |-> TRUE, reload |-> FALSE]

\* Variant of NewMessageCallback: trims the newest element, not the oldest.
NewMessageCallbackTrimsNewest(c, v, limit) ==
    [chat |-> c,
     mes |-> IF Len(v) > limit /\ v # <<>> THEN SubSeq(v, 1, Len(v) - 1) ELSE v]

\* Variant of NewMessageCallback: trims as soon as the view reaches the limit.
NewMessageCallbackAtLimit(c, v, limit) ==
    [chat |-> c,
     mes |-> IF Len(v) >= limit THEN RemoveFirst(v) ELSE v]

\* The callback handleNewMessage defers: trim the oldest element when over
\* the limit.
NewMessageCallback(c, v, limit) ==
    [chat |-> c,
     mes |-> IF Len(v) > limit THEN RemoveFirst(v) ELSE v]

\* Variant of DeletedMessageCallback: backfills the record at the oldest
\* element's own index instead of the one before it.
DeletedMessageCallbackSameIndex(c, v, limit) ==
    LET currentCount == Len(v)
        oldestMesId == v[1].mesid
        messageToAddIndex == oldestMesId - 1
    IN  IF currentCount < limit /\ Len(c) > currentCount /\ v # <<>>
           /\ messageToAddIndex >= 0 /\ At(c, oldestMesId) # Undefined
        THEN [chat |-> c,
              mes |-> addOneMessage(v, At(c, oldestMesId), messageToAddIndex, oldestMesId),
              threw |-> FALSE]
        ELSE [chat |-> c, mes |-> v, threw |-> FALSE]

\* The callback handleDeletedMessage defers: backfill one older message.
DeletedMessageCallback(c, v, limit) ==
    LET currentCount == Len(v)
        oldestMesId == v[1].mesid          \* NaN when the view is empty
        messageToAddIndex == oldestMesId - 1
    IN  IF currentCount < limit /\ Len(c) > currentCount
        THEN IF v # <<>> /\ messageToAddIndex >= 0     \* NaN >= 0 is false
             THEN LET message == At(c, messageToAddIndex)
                  IN  IF message = Undefined
                      \* addOneMessage(undefined, ...) raises a TypeError
                      THEN [chat |-> c, mes |-> v, threw |-> TRUE]
                      ELSE [chat |-> c,
                            mes |-> addOneMessage(v, message, messageToAddIndex, oldestMesId),
                            threw |-> FALSE]
             ELSE [chat |-> c, mes |-> v, threw |-> FALSE]
        ELSE [chat |-> c, mes |-> v, threw |-> FALSE]

\* applyMessageLimit() reaches clearChat() and rebuilds the view.
Resynced(v, enabled, limit) == enabled /\ ~EditInProgress(v) /\ limit > 0

ReloadBy(r, who) == IF r THEN who ELSE "none"

\* ------------------------------------------------------------- behaviour
Min(a, b) == IF a < b THEN a ELSE b

Tags(v) == [k \in 1..Len(v) |-> v[k].mesid]
Shown(v) == [k \in 1..Len(v) |-> v[k].msg]

\* The view shows exactly the last Len(v) records of the log, in order.
IsSuffixOfLog(c, v) ==
    /\ Len(v) <= Len(c)
    /\ Shown(v) = SubSeq(c, Len(c) - Len(v) + 1, Len(c))

\* An enabled window that is consistent with the log: min(L, K) elements
\* showing the last records of the log.
ConsistentWindow ==
    /\ isEnabled
    /\ messageLimit > 0
    /\ Len(mes) = Min(Len(chat), messageLimit)
    /\ IsSuffixOfLog(chat, mes)

Idle == event = NoEvent /\ reloadReq = "none"

Init ==
    /\ chat = <<>>
    /\ mes = <<>>
    /\ nextRec = 1
    /\ \E persisted \in {NoSettings} \cup
                      {<<s>> : s \in [isEnabled : BOOLEAN, messageLimit : LimitInputs]} :
          LET s == loadSettings(persisted)
          IN  /\ isEnabled = s.isEnabled
              /\ messageLimit = s.messageLimit
              /\ uiChecked = s.isEnabled
              /\ uiCount = s.messageLimit
    /\ limiterActive = FALSE
    /\ timers = <<>>
    /\ event = NoEvent
    /\ reloadReq = "none"
    /\ threw = FALSE
    /\ viewChanged = FALSE
    /\ sinceResync = FALSE
    /\ delBurst = 0
    /\ reloads = 0
    /\ lastOp = "load"

\* Host: a message is sent or received: pushed on the log, rendered at the
\* tail tagged with its index, and the event is emitted.
HostAppend ==
    /\ Idle
    /\ Len(chat) < MaxLog
    /\ nextRec <= MaxRec
    /\ Len(timers) < MaxTimers
    /\ chat' = Append(chat, nextRec)
    /\ mes' = addOneMessage(mes, nextRec, Len(chat), NoInsert)
    /\ nextRec' = nextRec + 1
    /\ \E e \in {"MESSAGE_SENT", "MESSAGE_RECEIVED"} : event' = e
    /\ lastOp' = "hostAppend"
    /\ reloads' = 0
    /\ delBurst' = 0
    /\ sinceResync' = (sinceResync /\ timers = <<>>)
    /\ viewChanged' = (mes' # mes)
    /\ threw' = FALSE
    /\ UNCHANGED <<isEnabled, messageLimit, limiterActive, uiChecked, uiCount, timers, reloadReq>>

\* Host: the message at log index i is deleted, the element tagged i is
\* removed, and MESSAGE_DELETED is emitted.
HostDelete ==
    /\ Idle
    /\ Len(timers) < MaxTimers
    /\ \E i \in 0..(Len(chat) - 1) :
          /\ chat' = Splice(chat, i)
          /\ mes' = RemoveTagged(mes, i)
    /\ event' = "MESSAGE_DELETED"
    /\ lastOp' = "hostDelete"
    /\ reloads' = 0
    /\ delBurst' = IF timers = <<>> /\ ConsistentWindow THEN 1
                    ELSE IF delBurst >= 1 /\ isEnabled /\ Len(timers) = delBurst
                         THEN delBurst + 1 ELSE 0
    /\ sinceResync' = (sinceResync /\ timers = <<>>)
    /\ viewChanged' = (mes' # mes)
    /\ threw' = FALSE
    /\ UNCHANGED <<isEnabled, messageLimit, limiterActive, uiChecked, uiCount, timers, reloadReq, nextRec>>

\* Host: the user opens another chat; it is rendered in full and
\* CHAT_CHANGED is emitted.
HostChatSwitch ==
    /\ Idle
    /\ \E n \in 0..MaxLog :
          /\ chat' = [k \in 1..n |-> k]
          /\ mes' = HostRender(chat', n)
          /\ nextRec' = n + 1
    /\ event' = "CHAT_CHANGED"
    /\ lastOp' = "hostChatSwitch"
    /\ reloads' = 0
    /\ delBurst' = 0
    /\ sinceResync' = FALSE
    /\ viewChanged' = (mes' # mes)
    /\ threw' = FALSE
    /\ UNCHANGED <<isEnabled, messageLimit, limiterActive, uiChecked, uiCount, timers, reloadReq>>

\* Host: reloadCurrentChat() completes: the current log is rendered in full
\* and CHAT_CHANGED is emitted.
HostReload ==
    /\ event = NoEvent
    /\ reloadReq # "none"
    /\ mes' = HostRender(chat, Len(chat))
    /\ reloadReq' = "none"
    /\ event' = "CHAT_CHANGED"
    /\ lastOp' = "reloadCurrentChat"
    /\ reloads' = reloads + 1
    /\ delBurst' = 0
    /\ sinceResync' = FALSE
    /\ viewChanged' = (mes' # mes)
    /\ threw' = FALSE
    /\ UNCHANGED <<chat, isEnabled, messageLimit, limiterActive, uiChecked, uiCount, timers, nextRec>>

\* Host: the user opens the in-place editor of a rendered message.
EditStart ==
    /\ Idle
    /\ ~EditInProgress(mes)
    /\ \E k \in 1..Len(mes) : mes' = [mes EXCEPT ![k].edit = TRUE]
    /\ lastOp' = "editStart"
    /\ reloads' = reloads
    /\ delBurst' = 0
    /\ sinceResync' = FALSE
    /\ viewChanged' = (mes' # mes)
    /\ threw' = FALSE
    /\ UNCHANGED <<chat, isEnabled, messageLimit, limiterActive, uiChecked, uiCount, timers, event, reloadReq, nextRec>>

\* Host: the editor is closed.
EditStop ==
    /\ Idle
    /\ EditInProgress(mes)
    /\ mes' = [k \in 1..Len(mes) |-> [mes[k] EXCEPT !.edit = FALSE]]
    /\ lastOp' = "editStop"
    /\ reloads' = reloads
    /\ delBurst' = 0
    /\ sinceResync' = FALSE
    /\ viewChanged' = (mes' # mes)
    /\ threw' = FALSE
    /\ UNCHANGED <<chat, isEnabled, messageLimit, limiterActive, uiChecked, uiCount, timers, event, reloadReq, nextRec>>

\* Variant of OnChatChanged: calls applyMessageLimit without clearing the
\* marker first.
OnChatChangedKeepsMarker ==
    /\ event = "CHAT_CHANGED"
    /\ LET r == applyMessageLimit(chat, mes, limiterActive, isEnabled, messageLimit)
       IN  /\ chat' = r.chat
           /\ mes' = r.mes
           /\ limiterActive' = r.limiterActive
           /\ reloadReq' = ReloadBy(r.reload, "applyMessageLimit")
    /\ event' = NoEvent
    /\ lastOp' = "CHAT_CHANGED"
    /\ reloads' = reloads
    /\ delBurst' = 0
    /\ sinceResync' = Resynced(mes, isEnabled, messageLimit)
    /\ viewChanged' = (mes' # mes)
    /\ threw' = FALSE
    /\ UNCHANGED <<isEnabled, messageLimit, uiChecked, uiCount, timers, nextRec>>

\* eventSource.on(CHAT_CHANGED, ...): clear the marker, then applyMessageLimit.
OnChatChanged ==
    /\ event = "CHAT_CHANGED"
    /\ LET r == applyMessageLimit(chat, mes, FALSE, isEnabled, messageLimit)
       IN  /\ chat' = r.chat
           /\ mes' = r.mes
           /\ limiterActive' = r.limiterActive
           /\ reloadReq' = ReloadBy(r.reload, "applyMessageLimit")
    /\ event' = NoEvent
    /\ lastOp' = "CHAT_CHANGED"
    /\ reloads' = reloads
    /\ delBurst' = 0
    /\ sinceResync' = Resynced(mes, isEnabled, messageLimit)
    /\ viewChanged' = (mes' # mes)
    /\ threw' = FALSE
    /\ UNCHANGED <<isEnabled, messageLimit, uiChecked, uiCount, timers, nextRec>>

\* onSettingsChange(), after the user changed one of the two inputs.
onSettingsChange(checked, count) ==
    /\ uiChecked' = checked
    /\ uiCount' = count
    /\ isEnabled' = checked
    /\ messageLimit' = count
    /\ LET r == applyMessageLimit(chat, mes, limiterActive, checked, count)
       IN  /\ chat' = r.chat
           /\ mes' = r.mes
           /\ limiterActive' = r.limiterActive
           /\ reloadReq' = ReloadBy(r.reload, "applyMessageLimit")
    /\ lastOp' = "onSettingsChange"
    /\ reloads' = 0
    /\ delBurst' = 0
    /\ sinceResync' = Resynced(mes, checked, count)
    /\ viewChanged' = (mes' # mes)
    /\ threw' = FALSE
    /\ UNCHANGED <<timers, event, nextRec>>

ChangeEnabledInput ==
    /\ Idle
    /\ onSettingsChange(~uiChecked, uiCount)

ChangeCountInput ==
    /\ Idle
    /\ \E count \in LimitInputs \ {uiCount} : onSettingsChange(uiChecked, count)

\* onToggleClick()
onToggleClick ==
    /\ Idle
    /\ isEnabled' = ~isEnabled
    /\ IF isEnabled'
       THEN LET r == applyMessageLimit(chat, mes, limiterActive, TRUE, messageLimit)
            IN  /\ chat' = r.chat
                /\ mes' = r.mes
                /\ limiterActive' = r.limiterActive
                /\ reloadReq' = ReloadBy(r.reload, "applyMessageLimit")
       ELSE /\ reloadReq' = "onToggleClick"
            /\ UNCHANGED <<chat, mes, limiterActive>>
    /\ lastOp' = "onToggleClick"
    /\ reloads' = 0
    /\ delBurst' = 0
    /\ sinceResync' = Resynced(mes, isEnabled', messageLimit)
    /\ viewChanged' = (mes' # mes)
    /\ threw' = FALSE
    /\ UNCHANGED <<messageLimit, uiChecked, uiCount, timers, event, nextRec>>

\* Variant of handleNewMessage: schedules its callback without testing
\* isEnabled.
handleNewMessageUnguarded ==
    /\ event \in {"MESSAGE_SENT", "MESSAGE_RECEIVED"}
    /\ timers' = Append(timers, "new")
    /\ event' = NoEvent
    /\ lastOp' = "handleNewMessage"
    /\ reloads' = reloads
    /\ delBurst' = 0
    /\ sinceResync' = sinceResync
    /\ viewChanged' = FALSE
    /\ threw' = FALSE
    /\ UNCHANGED <<chat, mes, isEnabled, messageLimit, limiterActive, uiChecked, uiCount, reloadReq, nextRec>>

\* handleNewMessage(): schedules its callback when enabled.
handleNewMessage ==
    /\ event \in {"MESSAGE_SENT", "MESSAGE_RECEIVED"}
    /\ timers' = IF isEnabled THEN Append(timers, "new") ELSE timers
    /\ event' = NoEvent
    /\ lastOp' = "handleNewMessage"
    /\ reloads' = reloads
    /\ delBurst' = 0
    /\ sinceResync' = sinceResync
    /\ viewChanged' = FALSE
    /\ threw' = FALSE
    /\ UNCHANGED <<chat, mes, isEnabled, messageLimit, limiterActive, uiChecked, uiCount, reloadReq, nextRec>>

\* handleDeletedMessage(): schedules its callback when enabled.
handleDeletedMessage ==
    /\ event = "MESSAGE_DELETED"
    /\ timers' = IF isEnabled THEN Append(timers, "del") ELSE timers
    /\ event' = NoEvent
    /\ lastOp' = "handleDeletedMessage"
    /\ reloads' = reloads
    /\ delBurst' = delBurst
    /\ sinceResync' = sinceResync
    /\ viewChanged' = FALSE
    /\ threw' = FALSE
    /\ UNCHANGED <<chat, mes, isEnabled, messageLimit, limiterActive, uiChecked, uiCount, reloadReq, nextRec>>

\* The event loop runs the oldest zero-delay callback.
TimerNew ==
    /\ event = NoEvent
    /\ timers # <<>> /\ Head(timers) = "new"
    /\ LET r == NewMessageCallback(chat, mes, messageLimit)
       IN  chat' = r.chat /\ mes' = r.mes
    /\ timers' = Tail(timers)
    /\ lastOp' = "timerNew"
    /\ reloads' = reloads
    /\ delBurst' = 0
    /\ sinceResync' = sinceResync
    /\ viewChanged' = (mes' # mes)
    /\ threw' = FALSE
    /\ UNCHANGED <<isEnabled, messageLimit, limiterActive, uiChecked, uiCount, event, reloadReq, nextRec>>

TimerDel ==
    /\ event = NoEvent
    /\ timers # <<>> /\ Head(timers) = "del"
    /\ LET r == DeletedMessageCallback(chat, mes, messageLimit)
       IN  chat' = r.chat /\ mes' = r.mes /\ threw' = r.threw
    /\ timers' = Tail(timers)
    /\ lastOp' = "timerDel"
    /\ reloads' = reloads
    /\ delBurst' = delBurst
    /\ sinceResync' = sinceResync
    /\ viewChanged' = (mes' # mes)
    /\ UNCHANGED <<isEnabled, messageLimit, limiterActive, uiChecked, uiCount, event, reloadReq, nextRec>>

Next ==
    \/ HostAppend
    \/ HostDelete
    \/ HostChatSwitch
    \/ HostReload
    \/ EditStart
    \/ EditStop
    \/ OnChatChanged
    \/ ChangeEnabledInput
    \/ ChangeCountInput
    \/ onToggleClick
    \/ handleNewMessage
    \/ handleDeletedMessage
    \/ TimerNew
    \/ TimerDel

Spec == Init /\ [][Next]_vars

\* Host: the host pushes onto the log a record object the log already holds
\* (the same reference at a second index), renders it and emits the event.
HostAppendExisting ==
    /\ Idle
    /\ Len(chat) < MaxLog
    /\ nextRec <= MaxRec
    /\ Len(timers) < MaxTimers
    /\ \E k \in 1..Len(chat) :
          /\ chat' = Append(chat, chat[k])
          /\ mes' = addOneMessage(mes, chat[k], Len(chat), NoInsert)
    /\ nextRec' = nextRec + 1
    /\ \E e \in {"MESSAGE_SENT", "MESSAGE_RECEIVED"} : event' = e
    /\ lastOp' = "hostAppend"
    /\ reloads' = 0
    /\ delBurst' = 0
    /\ sinceResync' = (sinceResync /\ timers = <<>>)
    /\ viewChanged' = (mes' # mes)
    /\ threw' = FALSE
    /\ UNCHANGED <<isEnabled, messageLimit, limiterActive, uiChecked, uiCount, timers, reloadReq>>

NextDup == Next \/ HostAppendExisting

\* The same system over a host whose log may hold one record at two indices.
SpecDup == Init /\ [][NextDup]_vars

\* Longest log of a chat the host opens in SpecLong.
MaxLongLog == MaxLog + 1

\* Host: the user opens a chat whose log is longer than any this session
\* builds by appending; it is rendered in full and CHAT_CHANGED is emitted.
HostChatSwitchLong ==
    /\ Idle
    /\ chat' = [k \in 1..MaxLongLog |-> k]
    /\ mes' = HostRender(chat', MaxLongLog)
    /\ nextRec' = MaxLongLog + 1
    /\ event' = "CHAT_CHANGED"
    /\ lastOp' = "hostChatSwitch"
    /\ reloads' = 0
    /\ delBurst' = 0
    /\ sinceResync' = FALSE
    /\ viewChanged' = (mes' # mes)
    /\ threw' = FALSE
    /\ UNCHANGED <<isEnabled, messageLimit, limiterActive, uiChecked, uiCount, timers, reloadReq>>

NextLong == Next \/ HostChatSwitchLong

\* The same system over a host that also opens long chats.
SpecLong == Init /\ [][NextLong]_vars

TypeOK ==
    /\ isEnabled \in BOOLEAN /\ uiChecked \in BOOLEAN /\ limiterActive \in BOOLEAN
    /\ messageLimit \in LimitInputs \cup {DefaultMessageLimit}
    /\ uiCount = messageLimit
    /\ Len(chat) <= MaxLog
    /\ Len(timers) <= MaxTimers

\* ---------------------------------------------------------- properties
\* Steps whose handler calls applyMessageLimit().
ResyncOps == {"onSettingsChange", "onToggleClick", "CHAT_CHANGED"}

\* Steps that are this extension's code (handlers and deferred callbacks).
SystemOps == {"onSettingsChange", "onToggleClick", "CHAT_CHANGED",
              "handleNewMessage", "handleDeletedMessage", "timerNew", "timerDel"}

\* applyMessageLimit() has just returned, with windowing enabled, a positive
\* limit and no element in edit state.
AfterFullResync ==
    /\ lastOp \in ResyncOps
    /\ isEnabled
    /\ messageLimit > 0
    /\ ~EditInProgress(mes)

\* No callback is pending, no event is being dispatched, no reload is due.
Quiescent == timers = <<>> /\ event = NoEvent /\ reloadReq = "none"

\* C1: after applyMessageLimit returns with windowing enabled, limit K > 0
\* and no element in edit state, the number of rendered elements is
\* min(L, K), L the length of the log.
C1_FullResyncSize ==
    AfterFullResync => Len(mes) = Min(Len(chat), messageLimit)

\* A resync that truncated: the log is longer than the limit.
C1_Witness ==
    /\ AfterFullResync
    /\ viewChanged
    /\ Len(chat) > messageLimit
    /\ Len(mes) = messageLimit

\* C2: after applyMessageLimit returns (enabled, K > 0, no edit), the mesid
\* tags in view order are exactly L-min(L,K), ..., L-1, also when the log
\* holds the same record at more than one index.
C2_FullResyncTags ==
    AfterFullResync =>
        LET n == Min(Len(chat), messageLimit)
        IN  Tags(mes) = [k \in 1..n |-> Len(chat) - n + k - 1]

\* C3: every step of this extension (its event handlers, its settings and
\* toggle handlers, its deferred callbacks) leaves the log unchanged.
C3_LogNeverWritten ==
    [][lastOp' \in SystemOps => chat' = chat]_vars

\* A step of the extension changed the view to fewer elements than the log
\* holds.
C3_Witness ==
    /\ lastOp \in SystemOps
    /\ viewChanged
    /\ Len(mes) < Len(chat)

\* C4: from an enabled window of exactly K elements that is the last-K
\* suffix of the log (K > 0), after the host appends and renders one message
\* and the deferred append callback runs, the window has exactly K elements,
\* the appended message is its newest element and exactly the previously
\* oldest element is gone.
AppendedOverFullWindow ==
    /\ lastOp = "handleNewMessage"
    /\ timers = <<"new">>
    /\ isEnabled
    /\ messageLimit > 0
    /\ Len(mes) = messageLimit + 1
    /\ IsSuffixOfLog(chat, mes)

C4_AppendUnderCap ==
    [][(AppendedOverFullWindow /\ lastOp' = "timerNew") =>
          /\ Len(mes') = messageLimit
          /\ mes' = Tail(mes)
          /\ mes'[Len(mes')].msg = chat'[Len(chat')]
          /\ IsSuffixOfLog(chat', mes')]_vars

\* The append callback has trimmed a full window back to K elements.
C4_Witness ==
    /\ lastOp = "timerNew"
    /\ viewChanged
    /\ isEnabled
    /\ messageLimit > 0
    /\ Len(mes) = messageLimit
    /\ Len(chat) > messageLimit
    /\ IsSuffixOfLog(chat, mes)

\* C5: when enabled, the visible count is below the limit, the log is longer
\* than the view and the log holds an entry at (oldest visible mesid - 1),
\* the deferred delete callback adds exactly one element; it is tagged
\* (previous oldest mesid - 1), shows the log entry at that index and stands
\* immediately before the previous oldest element.
BackfillDue ==
    /\ isEnabled
    /\ timers # <<>> /\ Head(timers) = "del"
    /\ Len(mes) < messageLimit
    /\ Len(chat) > Len(mes)
    /\ mes # <<>>
    /\ (mes[1].mesid - 1) \in 0..(Len(chat) - 1)

C6_DisableRestoresFullView ==
    [][(isEnabled /\ messageLimit > 0 /\ ~isEnabled') =>
          (reloadReq' # "none" \/ Shown(mes') = chat')]_vars

\* C7: while an element is in edit state, a call of applyMessageLimit()
\* leaves the view unchanged, whatever the configuration: neither the call
\* nor a re-render it requests replaces the rendered elements.
C7_EditGuard ==
    [][(/\ EditInProgress(mes)
        /\ \/ lastOp' \in {"onSettingsChange", "CHAT_CHANGED"}
           \/ lastOp' = "onToggleClick" /\ isEnabled'
           \/ lastOp' = "reloadCurrentChat" /\ reloadReq = "applyMessageLimit")
       => mes' = mes]_vars

\* C8: in every quiescent state with windowing enabled and limit K > 0 the
\* number of rendered elements is K when L >= K and L when L < K.
C8_WindowSize ==
    (Quiescent /\ isEnabled /\ messageLimit > 0) =>
        Len(mes) = Min(Len(chat), messageLimit)

\* C9: after full resyncs, host appends, host deletes and their callbacks,
\* the mesid tags of the rendered elements are strictly increasing in view
\* order (hence pairwise distinct).
C9_TagsIncreasing ==
    sinceResync =>
        \A j, k \in 1..Len(mes) : j < k => mes[j].mesid < mes[k].mesid

\* C10: while enabled, in every quiescent state reached from a full resync
\* by host appends and deletes, each followed by its callback, the view
\* shows exactly a contiguous suffix of the current log: no record twice,
\* none missing inside the range.
C10_ContiguousSuffix ==
    (sinceResync /\ Quiescent /\ isEnabled) => IsSuffixOfLog(chat, mes)

\* C11: when windowing is disabled at the moment MESSAGE_SENT,
\* MESSAGE_RECEIVED or MESSAGE_DELETED is delivered, handleNewMessage /
\* handleDeletedMessage schedules no callback and leaves the rendered
\* elements, their order and their tags as the host produced them.
C11_DisabledHandlersNoOp ==
    [][(~isEnabled /\ lastOp' \in {"handleNewMessage", "handleDeletedMessage"}) =>
          /\ timers' = timers
          /\ mes' = mes]_vars

\* A handler has returned while disabled, with rendered elements and no
\* callback scheduled.
C11_Witness ==
    /\ lastOp \in {"handleNewMessage", "handleDeletedMessage"}
    /\ ~isEnabled
    /\ timers = <<>>
    /\ mes # <<>>

\* C12: a deferred callback scheduled while windowing was enabled neither
\* removes nor inserts a rendered element when windowing has been disabled,
\* with the whole log rendered, before the callback runs (limit K > 0).
C12_CallbackAfterDisable ==
    [][(/\ ~isEnabled
        /\ messageLimit > 0
        /\ Shown(mes) = chat
        /\ lastOp' \in {"timerNew", "timerDel"})
       => mes' = mes]_vars

\* C13: for every host event E (append or delete) the deferred callback for
\* E runs before the host begins the next event E+1: while a callback is
\* pending, no further host append or delete happens and no handler for it
\* starts, so the callback for E never sees changes made by E+1.
C13_EventOrdering ==
    [][timers # <<>> =>
          lastOp' \notin {"hostAppend", "hostDelete",
                          "handleNewMessage", "handleDeletedMessage"}]_vars

\* C14: from an enabled, consistent window (the last-K suffix of the log),
\* when n >= 2 host deletions are delivered before any of their callbacks
\* runs and then all n callbacks have run, the window is consistent again:
\* min(L, K) elements forming the contiguous suffix of the current log.
C14_RapidDeletionsConverge ==
    (delBurst >= 2 /\ timers = <<>> /\ lastOp = "timerDel") =>
        /\ Len(mes) = Min(Len(chat), messageLimit)
        /\ IsSuffixOfLog(chat, mes)

\* C15: when windowing is enabled and the limit is <= 0, a full resync
\* (applyMessageLimit) changes nothing in the view, elements and tags alike,
\* and raises no error.
C15_NonPositiveLimitNoOp ==
    [][(lastOp' \in ResyncOps /\ isEnabled' /\ messageLimit' <= 0) =>
          /\ mes' = mes
          /\ ~threw']_vars

\* A full resync ran enabled with a non-positive limit over a non-empty view.
C15_Witness ==
    /\ lastOp \in ResyncOps
    /\ isEnabled /\ messageLimit <= 0
    /\ mes # <<>>
    /\ ~EditInProgress(mes)

\* C16: after every resync or handler run the active marker is set if and
\* only if the view is truncated (shows fewer elements than the log holds).
C16_ActiveFlagIffTruncated ==
    lastOp \in ResyncOps \cup {"timerNew", "timerDel"} =>
        (limiterActive <=> Len(mes) < Len(chat))

\* C17: each run of the deferred append callback removes exactly the first
\* element of the view when the visible count exceeds the limit, and otherwise
\* changes nothing; it inserts nothing, keeps the tags of the remaining
\* elements and leaves the log alone, so a run from count <= limit is a no-op.
C17_AppendHandlerStep ==
    [][lastOp' = "timerNew" =>
          /\ chat' = chat
          /\ IF Len(mes) > messageLimit /\ mes # <<>>
             THEN mes' = Tail(mes)
             ELSE mes' = mes]_vars

\* The append callback has just run over a full window and left it trimmed to
\* a positive limit; a second pending callback will find count <= limit.
C17_Witness ==
    /\ lastOp = "timerNew"
    /\ viewChanged
    /\ messageLimit > 0
    /\ Len(mes) = messageLimit
    /\ timers # <<>> /\ Head(timers) = "new"

\* C18: a run of the deferred delete callback never calls the render
\* primitive with a record the log does not hold (no error is raised), and
\* renders nothing when the view is empty or its oldest tag is 0.
C18_BackfillUnderflowSkipped ==
    [][lastOp' = "timerDel" =>
          /\ ~threw'
          /\ (mes = <<>> \/ mes[1].mesid = 0) => mes' = mes]_vars

\* C19: with a positive limit, no run of a deferred append or delete callback
\* removes or replaces a rendered element that is being edited: every element
\* in edit state before the run is still in the view, unchanged, after it.
C19_HandlersKeepEdits ==
    [][(messageLimit > 0 /\ lastOp' \in {"timerNew", "timerDel"}) =>
          \A k \in 1..Len(mes) :
              mes[k].edit => \E j \in 1..Len(mes') : mes'[j] = mes[k]]_vars

\* C20: the CHAT_CHANGED handler never calls reloadCurrentChat(), and between
\* two steps initiated by the user or the host log at most one reload
\* completes: a chain reload -> CHAT_CHANGED -> applyMessageLimit ends there.
C20_NoReloadLoop ==
    [][/\ lastOp' = "CHAT_CHANGED" => reloadReq' = "none"
       /\ reloads' <= 1]_vars

\* A disable made applyMessageLimit call reloadCurrentChat() on a marked
\* view, the reload completed, and the CHAT_CHANGED handler has run.
C20_Witness ==
    /\ lastOp = "CHAT_CHANGED"
    /\ reloads = 1
    /\ ~isEnabled
    /\ ~limiterActive
    /\ reloadReq = "none"
    /\ mes # <<>>
====
